---------------------------- MODULE Spec2Model ----------------------------
(***************************************************************************)
(* Model of the highlight-detection and segment-assembly pipeline of       *)
(* ai_video_editor (highlight.py, pipeline.py, transitions.py), of its     *)
(* overlay stage (overlays.py, transcription.py, captions.py), of          *)
(* probe_media (media_probe.py) and of the output names (utils.py,         *)
(* export.py).                                                             *)
(*                                                                         *)
(* Units.  Times are integers counting ticks of 1/60 s, so that frame/fps  *)
(* is exact for the frame rates the model draws (1, 2 and the 30 fps       *)
(* fallback) and the 0.25 s pad is 15 ticks.  A motion score is the exact  *)
(* rational [num, den] in lowest terms; motion_threshold * 0.1 is the      *)
(* rational motion_threshold / 10.                                         *)
(***************************************************************************)
EXTENDS Integers, Sequences, FiniteSets, TLC

VARIABLES
    \* ---- detect_scenes_and_highlights (highlight.py) ----
    dpc,                \* position in the function: "open", "read", "done"
    opened,             \* cap.isOpened()
    fps,                \* effective frame rate (after the fallback)
    min_scene_len_sec,  \* parameter, in ticks
    motion_threshold,   \* parameter
    have_prev,          \* prev_gray / prev_hist is not None
    frame_idx,
    scenes,             \* the boundary list
    motion_scores,
    highlights,         \* the returned list of [start, end, score]
    \* ---- apply_transitions (transitions.py) ----
    tpc,                \* "call", "returned", "raised"
    segments,           \* the sub-ranges [start, end] of the source clip
    kind,               \* config.transitions.default
    duration,           \* config.transitions.duration, in ticks
    stitched,           \* the clip apply_transitions returned
    \* ---- process_single_video (pipeline.py) ----
    pc,                 \* the stage the video is in
    ran,                \* the stages run so far, in order
    exists,             \* video_path.exists()
    trims,              \* video_item.get("trims")
    top_k,              \* config.highlight_top_k
    dry_run,            \* config.dry_run
    detected,           \* what detect_scenes_and_highlights returned
    selection,          \* "highlights" after the trim substitution
    clip_duration,      \* clip.duration of the source
    fell_back,          \* _build_sequence took "if not segments"
    result_log,
    written,            \* files written under config.output_dir
    outcome,            \* "running", "returned", "raised"
    \* ---- process_folder (pipeline.py) ----
    fpc,                \* "start", "as_completed", "loop", "returned", "raised"
    max_workers,        \* config.max_workers
    videos,             \* config.videos
    task,               \* per video: where its process_single_video call is
    collected,          \* futures as_completed has yielded
    next_v,             \* the sequential loop's position in config.videos
    results,            \* the result logs appended, by video
    logged,             \* the videos whose exception logger.exception recorded
    disk,               \* the files written under config.output_dir, by video
    \* ---- title card, transcription, captions (overlays.py, ----
    \* ---- transcription.py, captions.py) ----
    opc,                \* "title", "transcribe", "captions", "done", "raised"
    title,              \* config.overlay.title is set
    title_card,         \* the rasterizer that drew the title card, or "none"
    transcriber,        \* the backend that produced the entries, or "failed"
    entries,            \* the caption texts transcribe_to_srt returned
    cap_i,              \* burn_captions' position in entries
    burned,             \* caption_clips, by entry index
    \* ---- probe_media (media_probe.py) ----
    mpc,                \* "ffprobe", "cv2", "done", "raised"
    source,             \* what is at the path
    info                \* the metadata record

dvars == <<dpc, opened, fps, min_scene_len_sec, motion_threshold, have_prev,
           frame_idx, scenes, motion_scores, highlights>>

tvars == <<tpc, segments, kind, duration, stitched>>

pvars == <<pc, ran, exists, trims, top_k, dry_run, detected, selection,
           clip_duration, fell_back, result_log, written, outcome>>

fvars == <<fpc, max_workers, videos, task, collected, next_v, results, logged,
           disk>>

ovars == <<opc, title, title_card, transcriber, entries, cap_i, burned>>

mvars == <<mpc, source, info>>

vars == <<dvars, tvars, pvars, fvars, ovars, mvars>>

-----------------------------------------------------------------------------
(* Bounds of the model *)

\* frames a source yields at most
MaxFrames == 5
\* optical-flow magnitudes of a frame pair are drawn from 0..MaxMotion
MaxMotion == 2

\* videos of a batch at most
MaxVideos == 2
\* config.max_workers is drawn from 0..MaxWorkers
MaxWorkers == 2
\* source frames of the video a pipeline run draws
MaxClipFrames == 3
\* manual trims a video item carries at most
MaxTrims == 2
\* config.highlight_top_k is drawn from -1..MaxTopK
MaxTopK == 3
\* segments handed to apply_transitions at most
MaxSegments == 3

(* Program constants *)

\* pad: float = 0.25, in ticks
Pad == 15
\* result_log["highlights"] = highlights[:10]
LogHighlights == 10

\* fps_fallback: float = 30.0
FpsFallback == 30
\* "if diff > 0.5", in tenths
CutThreshold == 5

\* frame rates cap.get(CAP_PROP_FPS) reports; 0 stands for "none reported"
ReportedFps == {0, 1, 2}
\* Bhattacharyya distances between consecutive histograms, in tenths
Diffs == {CutThreshold, CutThreshold + 1}
Mags == 0..MaxMotion
\* min_scene_len_sec values, in ticks (0 s, 1.5 s, 2 s)
MinSceneLens == {0, 90, 120}
\* motion_threshold values (12.0 is the default)
MotionThresholds == {0, 12}

-----------------------------------------------------------------------------
(* Exact rationals for scores *)

RECURSIVE GCD(_, _)
GCD(a, b) == IF b = 0 THEN a ELSE GCD(b, a % b)

Rat(n, d) == LET g == GCD(n, d) IN
             IF n = 0 THEN [num |-> 0, den |-> 1] ELSE [num |-> n \div g, den |-> d \div g]

RatGE(a, b) == a.num * b.den >= b.num * a.den
RatGT(a, b) == a.num * b.den > b.num * a.den
RatEQ(a, b) == a.num * b.den = b.num * a.den

RECURSIVE SumSeq(_)
SumSeq(s) == IF s = <<>> THEN 0 ELSE Head(s) + SumSeq(Tail(s))

\* float(np.mean(seg_motion)) if seg_motion else 0.0
MeanOrZero(s) == IF s = <<>> THEN Rat(0, 1) ELSE Rat(SumSeq(s), Len(s))

Max(a, b) == IF a >= b THEN a ELSE b
Min(a, b) == IF a <= b THEN a ELSE b

\* Python's s[lo:hi] for 0 <= lo, 0 <= hi (0-based, hi exclusive, clipped to the list)
Slice(s, lo, hi) == LET h == Min(hi, Len(s)) IN
                    IF lo >= h THEN <<>> ELSE SubSeq(s, lo + 1, h)

-----------------------------------------------------------------------------
(* detect_scenes_and_highlights *)

\* s / fps in ticks of 1/60 s
FrameSec(f, rate) == (60 * f) \div rate

\* "if not fps or fps <= 0: fps = fps_fallback"
EffectiveFps(reported) == IF reported = 0 \/ reported <= 0 THEN FpsFallback ELSE reported

\* a slice that runs to the end of the scene, motion_scores[s : e]
SegMotion_ToSceneEnd(ms, s, e) == IF ms = <<>> THEN <<>> ELSE Slice(ms, s, Max(s, e))

\* motion_scores[s : max(s, e - 1)] if motion_scores else []
SegMotion(ms, s, e) == IF ms = <<>> THEN <<>> ELSE Slice(ms, s, Max(s, e - 1))

SceneScore(ms, s, e) == MeanOrZero(SegMotion(ms, s, e))

\* a filter that also drops a scene of exactly the minimum length
TooShort_Inclusive(start_sec, end_sec, minlen) == end_sec - start_sec <= minlen

\* "if end_sec - start_sec < min_scene_len_sec: continue"
TooShort(start_sec, end_sec, minlen) == end_sec - start_sec < minlen

\* "if score >= motion_threshold * 0.1"
PassesThreshold(score, thr) == RatGE(score, [num |-> thr, den |-> 10])

\* the loop over zip(scenes[:-1], scenes[1:]), from scene i on
RECURSIVE BuildHighlights(_, _, _, _, _, _)
BuildHighlights(sc, ms, rate, minlen, thr, i) ==
    IF i >= Len(sc) THEN <<>>
    ELSE LET s == sc[i]
             e == sc[i + 1]
             start_sec == FrameSec(s, rate)
             end_sec == FrameSec(e, rate)
             score == SceneScore(ms, s, e)
             rest == BuildHighlights(sc, ms, rate, minlen, thr, i + 1)
         IN IF TooShort(start_sec, end_sec, minlen) THEN rest
            ELSE IF PassesThreshold(score, thr)
                 THEN <<[start |-> start_sec, end |-> end_sec, score |-> score]>> \o rest
                 ELSE rest

\* an unstable placement: h goes before entries of equal score
ComesBefore_Strict(x, h) == RatGT(x.score, h.score)

\* where list.sort(key=score, reverse=True) places h among already sorted
\* entries: after every entry whose score is not smaller (the sort is
\* stable, and reverse=True keeps equal keys in their original order)
ComesBefore(x, h) == RatGE(x.score, h.score)

RECURSIVE InsertByScore(_, _)
InsertByScore(sorted, h) ==
    IF sorted = <<>> THEN <<h>>
    ELSE IF ComesBefore(Head(sorted), h)
         THEN <<Head(sorted)>> \o InsertByScore(Tail(sorted), h)
         ELSE <<h>> \o sorted

\* highlights.sort(key=lambda x: x[2], reverse=True)
RECURSIVE SortByScoreDesc(_)
SortByScoreDesc(hs) ==
    IF hs = <<>> THEN <<>>
    ELSE InsertByScore(SortByScoreDesc(SubSeq(hs, 1, Len(hs) - 1)), hs[Len(hs)])

\* lines 55-72: close the boundary list, score, filter, sort
RankedHighlights(sc, ms, rate, minlen, thr) ==
    SortByScoreDesc(BuildHighlights(sc, ms, rate, minlen, thr, 1))

DStart ==
    /\ dpc = "open"
    /\ opened = FALSE
    /\ fps = 0
    /\ min_scene_len_sec \in MinSceneLens
    /\ motion_threshold \in MotionThresholds
    /\ have_prev = FALSE
    /\ frame_idx = 0
    /\ scenes = <<>>
    /\ motion_scores = <<>>
    /\ highlights = <<>>

\* cap = cv2.VideoCapture(...); not opened: return []
OpenFail ==
    /\ dpc = "open"
    /\ dpc' = "done"
    /\ opened' = FALSE
    /\ UNCHANGED <<fps, min_scene_len_sec, motion_threshold, have_prev,
                   frame_idx, scenes, motion_scores, highlights>>
    /\ UNCHANGED <<tvars, pvars, fvars, ovars, mvars>>

\* cap opened: fps read, loop state initialised
Open ==
    /\ dpc = "open"
    /\ \E reported \in ReportedFps : fps' = EffectiveFps(reported)
    /\ dpc' = "read"
    /\ opened' = TRUE
    /\ have_prev' = FALSE
    /\ frame_idx' = 0
    /\ scenes' = <<0>>
    /\ motion_scores' = <<>>
    /\ UNCHANGED <<min_scene_len_sec, motion_threshold, highlights>>
    /\ UNCHANGED <<tvars, pvars, fvars, ovars, mvars>>

\* whether the loop body records a cut at the current frame
IsCut(prev, diff) == prev /\ diff > CutThreshold

\* one iteration of the while loop with ret = True
ReadFrame ==
    /\ dpc = "read"
    /\ frame_idx < MaxFrames
    /\ \E diff \in Diffs, mag \in Mags :
          /\ scenes' = IF IsCut(have_prev, diff) THEN Append(scenes, frame_idx) ELSE scenes
          /\ motion_scores' = IF have_prev THEN Append(motion_scores, mag) ELSE motion_scores
    /\ have_prev' = TRUE
    /\ frame_idx' = frame_idx + 1
    /\ UNCHANGED <<dpc, opened, fps, min_scene_len_sec, motion_threshold, highlights>>
    /\ UNCHANGED <<tvars, pvars, fvars, ovars, mvars>>

\* closing the list with the index of the last frame instead of the count
ClosedScenes_LastIndex(sc, n) == Append(sc, n - 1)

\* the boundary list once the loop has ended at frame n
ClosedScenes(sc, n) == Append(sc, n)

\* ret = False: leave the loop, then lines 55-72
EndOfStream ==
    /\ dpc = "read"
    /\ scenes' = ClosedScenes(scenes, frame_idx)
    /\ highlights' = RankedHighlights(scenes', motion_scores, fps,
                                      min_scene_len_sec, motion_threshold)
    /\ dpc' = "done"
    /\ UNCHANGED <<opened, fps, min_scene_len_sec, motion_threshold, have_prev,
                   frame_idx, motion_scores>>
    /\ UNCHANGED <<tvars, pvars, fvars, ovars, mvars>>

\* the detector is not running (the other specifications)
DIdle ==
    /\ dpc = "idle"
    /\ opened = FALSE
    /\ fps = 0
    /\ min_scene_len_sec = 0
    /\ motion_threshold = 0
    /\ have_prev = FALSE
    /\ frame_idx = 0
    /\ scenes = <<>>
    /\ motion_scores = <<>>
    /\ highlights = <<>>

-----------------------------------------------------------------------------
(* The detector as a function of the frames, for the pipeline: the same    *)
(* loop body and tail, folded over the frames of a source.                 *)

FrameInputs == [diff : Diffs, mag : Mags]

\* scenes after the frames idx.. of a source of n frames (inputs[i] belongs
\* to frame i, i >= 1; frame 0 has no predecessor)
RECURSIVE ScenesOfFrames(_, _, _, _)
ScenesOfFrames(sc, inputs, idx, n) ==
    IF idx >= n THEN sc
    ELSE ScenesOfFrames(
             IF idx > 0 /\ IsCut(TRUE, inputs[idx].diff) THEN Append(sc, idx) ELSE sc,
             inputs, idx + 1, n)

MotionOfFrames(inputs) == [i \in 1..Len(inputs) |-> inputs[i].mag]

DetectOnFrames(reported, minlen, thr, n, inputs) ==
    RankedHighlights(ClosedScenes(ScenesOfFrames(<<0>>, inputs, 0, n), n),
                     MotionOfFrames(inputs), EffectiveFps(reported), minlen, thr)

\* every list detect_scenes_and_highlights can return for a source of at
\* most MaxClipFrames frames ([] when the source does not open)
DetectionResults ==
    {<<>>} \cup
    { DetectOnFrames(r, ml, th, 0, <<>>) :
          r \in ReportedFps, ml \in MinSceneLens, th \in MotionThresholds } \cup
    UNION { UNION { { DetectOnFrames(x[1], x[2], x[3], n, inputs) :
                          inputs \in [1..(n - 1) -> FrameInputs] } :
                    x \in ReportedFps \X MinSceneLens \X MotionThresholds } :
            n \in 1..MaxClipFrames }

-----------------------------------------------------------------------------
(* apply_transitions (transitions.py) over moviepy's concatenate_videoclips *)

\* kind is None
NoneKind == "<None>"

Kinds == {"crossfade", "Fade", "cut", "", NoneKind}

\* config.transitions.duration values, in ticks (0.5 s, 2 s)
TransitionDurations == {30, 120}

\* str.lower() on the kinds of the model
Lower(k) == CASE k = "Fade" -> "fade"
              [] k = "CrossFade" -> "crossfade"
              [] OTHER -> k

\* a default that leaves an unspecified kind as it is
KindOrDefault_Keep(k) == k

\* (kind or "crossfade")
KindOrDefault(k) == IF k = NoneKind \/ k = "" THEN "crossfade" ELSE k

\* the duration of clip.subclip(start, end)
SegDuration(seg) == seg.end - seg.start

RECURSIVE SumDurations(_, _)
SumDurations(segs, upto) ==
    IF upto = 0 THEN 0 ELSE SumDurations(segs, upto - 1) + SegDuration(segs[upto])

\* moviepy 1.x, concatenate_videoclips(clips, method="compose", padding):
\*   tt = np.cumsum([0] + [c.duration for c in clips])
\*   tt = np.maximum(0, tt + padding * np.arange(len(tt)))
\*   clip i is placed at tt[i]; result.duration = tt[-1]
ConcatTiming(segs, padding, i) == Max(0, SumDurations(segs, i) + padding * i)

concatenate_videoclips(segs, padding) ==
    [start_times |-> [i \in 1..Len(segs) |-> ConcatTiming(segs, padding, i - 1)],
     duration |-> ConcatTiming(segs, padding, Len(segs))]

\* the padding apply_transitions passes for a kind
JoinPadding(k, d) ==
    IF Lower(KindOrDefault(k)) \in {"crossfade", "fade"} THEN -d ELSE 0

NoClip == [start_times |-> <<>>, duration |-> 0]

\* apply_transitions(segments, kind, duration): raised, or the clip returned
apply_transitions(segs, k, d) ==
    IF segs = <<>> THEN [raised |-> TRUE, clip |-> NoClip]
    ELSE IF Len(segs) = 1
         THEN [raised |-> FALSE,
               clip |-> [start_times |-> <<0>>, duration |-> SegDuration(segs[1])]]
         ELSE [raised |-> FALSE, clip |-> concatenate_videoclips(segs, JoinPadding(k, d))]

\* sub-ranges of a source the model hands to apply_transitions directly
SegmentChoices == { [start |-> 0, end |-> 75], [start |-> 105, end |-> 255],
                    [start |-> 300, end |-> 600] }

SegmentLists == UNION { [1..n -> SegmentChoices] : n \in 0..MaxSegments }

TStart ==
    /\ tpc = "call"
    /\ segments \in SegmentLists
    /\ kind \in Kinds
    /\ duration \in TransitionDurations
    /\ stitched = NoClip

TIdle ==
    /\ tpc = "idle"
    /\ segments = <<>>
    /\ kind = NoneKind
    /\ duration = 0
    /\ stitched = NoClip

\* one call of apply_transitions
ApplyTransitions ==
    /\ tpc = "call"
    /\ LET r == apply_transitions(segments, kind, duration) IN
          /\ tpc' = IF r.raised THEN "raised" ELSE "returned"
          /\ stitched' = r.clip
    /\ UNCHANGED <<segments, kind, duration>>
    /\ UNCHANGED <<dvars, pvars, fvars, ovars, mvars>>

-----------------------------------------------------------------------------
(* process_single_video (pipeline.py) *)

Range(s) == { s[i] : i \in 1..Len(s) }

\* the per-video stages, in order
Stages == <<"Probing", "HighlightDetection", "SequenceAssembly",
            "EnhancementAndOverlay", "AudioMix", "Export">>

\* manual trims a video item may carry (2.0-4.0 s, a range past the end of
\* every source of the model, a range given end-first)
TrimChoices == { [start |-> 120, end |-> 240], [start |-> 720, end |-> 840],
                 [start |-> 240, end |-> 120] }

TrimLists == UNION { [1..n -> TrimChoices] : n \in 0..MaxTrims }

TopKs == (-1)..MaxTopK

\* clip.duration of the sources (3 s, 10 s)
ClipDurations == {180, 600}

One == [num |-> 1, den |-> 1]

\* [(t["start"], t["end"], 1.0) for t in video_item.get("trims", [])]
TrimsAsHighlights(tr) ==
    [i \in 1..Len(tr) |-> [start |-> tr[i].start, end |-> tr[i].end, score |-> One]]

\* a substitution that lets the trims override detected highlights too
UseTrims_Always(hs, tr) == tr # <<>>

\* "if not highlights and video_item.get("trims")"
UseTrims(hs, tr) == hs = <<>> /\ tr # <<>>

SelectHighlights(hs, tr) == IF UseTrims(hs, tr) THEN TrimsAsHighlights(tr) ELSE hs

\* a truncation that keeps at least one element of a non-empty list
Prefix_AtLeastOne(s, k) ==
    LET hi == Min(Len(s), IF k < 0 THEN Max(1, Len(s) + k) ELSE Max(k, 1)) IN
    IF hi = 0 THEN <<>> ELSE SubSeq(s, 1, hi)

\* Python's s[:k] for any integer k
Prefix(s, k) ==
    LET hi == IF k < 0 THEN Max(0, Len(s) + k) ELSE Min(k, Len(s)) IN
    IF hi = 0 THEN <<>> ELSE SubSeq(s, 1, hi)

\* the sub-range of one selected (s, e): lines 32-34
PaddedRange(h, dur, pad) ==
    [start |-> Max(0, h.start - pad), end |-> Min(dur, h.end + pad)]

\* the whole source as a single segment
WholeClip(dur) == [start |-> 0, end |-> dur]

\* a sequence builder without the whole-clip fallback
WithFallback_None(segs, dur) == segs

\* "if not segments: segments = [clip]"
WithFallback(segs, dur) == IF segs = <<>> THEN <<WholeClip(dur)>> ELSE segs

\* lines 29-34: the sub-ranges of the selected highlights
SubRanges(hs, k, dur, pad) ==
    LET selected == Prefix(hs, k) IN
    [i \in 1..Len(selected) |-> PaddedRange(selected[i], dur, pad)]

\* _build_sequence(video_path, highlights, top_k, pad): the segments
build_sequence(hs, k, dur, pad) == WithFallback(SubRanges(hs, k, dur, pad), dur)

EmptyLog == [error |-> "", probed |-> FALSE, highlights |-> <<>>, outputs |-> <<>>]

PStart ==
    /\ pc = "Probing"
    /\ ran = <<>>
    /\ exists \in BOOLEAN
    /\ trims \in TrimLists
    /\ top_k \in TopKs
    /\ dry_run \in BOOLEAN
    /\ detected = <<>>
    /\ selection = <<>>
    /\ clip_duration = 0
    /\ fell_back = FALSE
    /\ result_log = EmptyLog
    /\ written = {}
    /\ outcome = "running"

PIdle ==
    /\ pc = "idle"
    /\ ran = <<>>
    /\ exists = FALSE
    /\ trims = <<>>
    /\ top_k = 0
    /\ dry_run = FALSE
    /\ detected = <<>>
    /\ selection = <<>>
    /\ clip_duration = 0
    /\ fell_back = FALSE
    /\ result_log = EmptyLog
    /\ written = {}
    /\ outcome = "idle"

\* a missing-file branch that marks the log but does not return
MissingFileExit_FallThrough ==
    [pc |-> "HighlightDetection", outcome |-> "running"]

\* a missing-file branch that reports the video as done
MissingFileExit_Done == [pc |-> "Done", outcome |-> "returned"]

\* lines 51-53: result_log["error"] = "missing_file"; return result_log
MissingFileExit == [pc |-> "Skipped", outcome |-> "returned"]

\* lines 42-53: the source file is missing
SkipMissing ==
    /\ pc = "Probing"
    /\ ~exists
    /\ result_log' = [result_log EXCEPT !.error = "missing_file"]
    /\ pc' = MissingFileExit.pc
    /\ outcome' = MissingFileExit.outcome
    /\ UNCHANGED <<ran, exists, trims, top_k, dry_run, fell_back, detected, selection,
                   clip_duration, written>>
    /\ UNCHANGED <<dvars, tvars, fvars, ovars, mvars>>

\* lines 55-57: probe_media
Probe ==
    /\ pc = "Probing"
    /\ exists
    /\ result_log' = [result_log EXCEPT !.probed = TRUE]
    /\ ran' = Append(ran, "Probing")
    /\ pc' = "HighlightDetection"
    /\ UNCHANGED <<exists, trims, top_k, dry_run, fell_back, detected, selection,
                   clip_duration, written, outcome>>
    /\ UNCHANGED <<dvars, tvars, fvars, ovars, mvars>>

\* lines 59-66: detection, trim substitution, result_log["highlights"]
DetectHighlights ==
    /\ pc = "HighlightDetection"
    /\ \E hs \in DetectionResults :
          /\ detected' = hs
          /\ selection' = SelectHighlights(hs, trims)
    /\ result_log' = [result_log EXCEPT !.highlights = Prefix(selection', LogHighlights)]
    /\ ran' = Append(ran, "HighlightDetection")
    /\ pc' = "SequenceAssembly"
    /\ UNCHANGED <<exists, trims, top_k, dry_run, fell_back, clip_duration, written, outcome>>
    /\ UNCHANGED <<dvars, tvars, fvars, ovars, mvars>>

\* lines 68-69: _build_sequence, then apply_transitions.  Of the call of
\* apply_transitions the pipeline state keeps whether it raised; the clip
\* it returns is followed under SpecTransitions.
AssembleSequence ==
    /\ pc = "SequenceAssembly"
    /\ \E dur \in ClipDurations, k \in Kinds, d \in TransitionDurations :
          LET segs == build_sequence(selection, top_k, dur, Pad)
              r == apply_transitions(segs, k, d)
          IN /\ clip_duration' = dur
             /\ fell_back' = (SubRanges(selection, top_k, dur, Pad) = <<>>)
             /\ segments' = segs
             /\ tpc' = IF r.raised THEN "raised" ELSE "returned"
             /\ pc' = IF r.raised THEN "Error" ELSE "EnhancementAndOverlay"
             /\ outcome' = IF r.raised THEN "raised" ELSE outcome
    /\ ran' = Append(ran, "SequenceAssembly")
    /\ UNCHANGED <<exists, trims, top_k, dry_run, detected, selection,
                   result_log, written>>
    /\ UNCHANGED <<kind, duration, stitched>>
    /\ UNCHANGED <<dvars, fvars, ovars, mvars>>

\* lines 71-100: title card, colour correction, stabilisation, captions, watermark
EnhanceAndOverlay ==
    /\ pc = "EnhancementAndOverlay"
    /\ ran' = Append(ran, "EnhancementAndOverlay")
    /\ pc' = "AudioMix"
    /\ UNCHANGED <<exists, trims, top_k, dry_run, fell_back, detected, selection,
                   clip_duration, result_log, written, outcome>>
    /\ UNCHANGED <<dvars, tvars, fvars, ovars, mvars>>

\* lines 102-119: the temp audio file is written unless dry_run or no audio
AudioMix ==
    /\ pc = "AudioMix"
    /\ \E has_audio \in BOOLEAN :
          written' = IF has_audio /\ ~dry_run THEN written \cup {"temp_audio.wav"}
                     ELSE written
    /\ ran' = Append(ran, "AudioMix")
    /\ pc' = "Export"
    /\ UNCHANGED <<exists, trims, top_k, dry_run, fell_back, detected, selection,
                   clip_duration, result_log, outcome>>
    /\ UNCHANGED <<dvars, tvars, fvars, ovars, mvars>>

\* the output paths of one run: master, per-resolution, preview
OutputNames(preview) ==
    <<"master.mp4", "master_1080p.mp4", "master_720p.mp4">> \o
    (IF preview THEN <<"master_preview.mp4">> ELSE <<>>)

\* lines 121-149: export (or the dry-run listing), the JSON log, return
Export ==
    /\ pc = "Export"
    /\ \E preview \in BOOLEAN :
          /\ result_log' = [result_log EXCEPT !.outputs = OutputNames(preview)]
          /\ written' = (IF dry_run THEN written
                         ELSE written \cup Range(OutputNames(preview)))
                        \cup {"log.json"}
    /\ ran' = Append(ran, "Export")
    /\ pc' = "Done"
    /\ outcome' = "returned"
    /\ UNCHANGED <<exists, trims, top_k, dry_run, fell_back, detected, selection, clip_duration>>
    /\ UNCHANGED <<dvars, tvars, fvars, ovars, mvars>>

\* a call into cv2, moviepy, pydub or the encoder raises: the exception
\* leaves process_single_video from the stage the video is in
StageRaises ==
    /\ pc \in Range(Stages)
    /\ pc = "Probing" => exists
    /\ ran' = Append(ran, pc)
    /\ pc' = "Error"
    /\ outcome' = "raised"
    /\ UNCHANGED <<exists, trims, top_k, dry_run, fell_back, detected, selection,
                   clip_duration, result_log, written>>
    /\ UNCHANGED <<dvars, tvars, fvars, ovars, mvars>>

-----------------------------------------------------------------------------
(* process_folder (pipeline.py): the batch, as a pool or sequentially.     *)
(* A video's call of process_single_video advances stage by stage.         *)

Terminal == {"Done", "Skipped", "Error"}

VideoIdx == 1..Len(videos)

\* the stage after s
NextStage(s) ==
    IF s = Stages[Len(Stages)] THEN "Done"
    ELSE Stages[(CHOOSE i \in 1..Len(Stages) : Stages[i] = s) + 1]

\* the video items of a batch: the file (stem and suffix, in the input
\* directory), whether it is missing, whether the clip has an audio track
VideoItems ==
    { [file |-> [stem |-> <<"a", " ", "b">>, suffix |-> ".mp4"],
       missing |-> FALSE, audio |-> TRUE],
      [file |-> [stem |-> <<"a", "_", "b">>, suffix |-> ".mp4"],
       missing |-> FALSE, audio |-> TRUE],
      [file |-> [stem |-> <<"c">>, suffix |-> ".mp4"],
       missing |-> TRUE, audio |-> FALSE] }

\* int(time.time()) at the moment a video names its outputs
Timestamps == {"1700000000", "1700000001"}

\* config.export.resolutions (the default)
Resolutions == <<"1080p", "720p">>

\* safe_stem(path): path.stem.replace(" ", "_")
safe_stem(file) ==
    [i \in 1..Len(file.stem) |-> IF file.stem[i] = " " THEN "_" ELSE file.stem[i]]

\* timestamped_name(base): f"{base}_{int(time.time())}"
timestamped_name(base, now) == base \o <<"_", now>>

\* file names under config.output_dir, as token sequences
TempAudioPath(file) == safe_stem(file) \o <<"_temp_audio.wav">>

OutBase(file, now) == timestamped_name(safe_stem(file), now) \o <<".mp4">>

\* out_base.parent / f"{out_base.stem}_{r}{out_base.suffix}"
ResolutionPath(file, now, r) ==
    timestamped_name(safe_stem(file), now) \o <<"_", r, ".mp4">>

LogPath(file) == safe_stem(file) \o <<"_log.json">>

\* the files a call writes while it completes a stage (none for the other
\* stages); dry_run is config.dry_run, False in a batch of the model
FilesWritten(item, stage, now) ==
    IF stage = "AudioMix"
    THEN IF item.audio /\ ~dry_run THEN {TempAudioPath(item.file)} ELSE {}
    ELSE IF stage = "Export"
    THEN (IF dry_run THEN {}
          ELSE {OutBase(item.file, now)} \cup
               { ResolutionPath(item.file, now, Resolutions[i]) :
                     i \in 1..Len(Resolutions) })
         \cup {LogPath(item.file)}
    ELSE {}

\* "if config.max_workers and config.max_workers > 1"
PoolMode(w) == w # 0 /\ w > 1

\* a handler that lets the exception leave process_folder
ExceptionCaught_Not == FALSE

\* "except Exception as e: logger.exception(...)" around fut.result() and
\* around the sequential call
ExceptionCaught == TRUE

FStart ==
    /\ fpc = "start"
    /\ max_workers \in 0..MaxWorkers
    /\ videos \in UNION { [1..n -> VideoItems] : n \in 0..MaxVideos }
    /\ task = [v \in VideoIdx |-> "unsubmitted"]
    /\ collected = {}
    /\ next_v = 1
    /\ results = <<>>
    /\ logged = <<>>
    /\ disk = {}

FIdle ==
    /\ fpc = "idle"
    /\ max_workers = 0
    /\ videos = <<>>
    /\ task = <<>>
    /\ collected = {}
    /\ next_v = 1
    /\ results = <<>>
    /\ logged = <<>>
    /\ disk = {}

\* pool mode: every video is submitted to the executor
SubmitAll ==
    /\ fpc = "start"
    /\ PoolMode(max_workers)
    /\ task' = [v \in VideoIdx |-> "queued"]
    /\ fpc' = "as_completed"
    /\ UNCHANGED <<max_workers, videos, collected, next_v, results, logged, disk>>
    /\ UNCHANGED <<dvars, tvars, pvars, ovars, mvars>>

\* sequential mode: enter "for v in config.videos"
EnterLoop ==
    /\ fpc = "start"
    /\ ~PoolMode(max_workers)
    /\ fpc' = "loop"
    /\ next_v' = 1
    /\ UNCHANGED <<max_workers, videos, task, collected, results, logged, disk>>
    /\ UNCHANGED <<dvars, tvars, pvars, ovars, mvars>>

Running == { v \in VideoIdx : task[v] \in Range(Stages) }

\* a free worker thread takes the oldest queued call
WorkerTakes(v) ==
    /\ fpc \in {"as_completed", "raised"}
    /\ task[v] = "queued"
    /\ \A u \in VideoIdx : u < v => task[u] # "queued"
    /\ Cardinality(Running) < max_workers
    /\ task' = [task EXCEPT ![v] = "Probing"]
    /\ UNCHANGED <<fpc, max_workers, videos, collected, next_v, results, logged, disk>>
    /\ UNCHANGED <<dvars, tvars, pvars, ovars, mvars>>

\* the loop calls process_single_video for the next video
CallVideo ==
    /\ fpc = "loop"
    /\ next_v <= Len(videos)
    /\ task[next_v] = "unsubmitted"
    /\ task' = [task EXCEPT ![next_v] = "Probing"]
    /\ UNCHANGED <<fpc, max_workers, videos, collected, next_v, results, logged, disk>>
    /\ UNCHANGED <<dvars, tvars, pvars, ovars, mvars>>

\* a running call completes its stage (a missing source returns from Probing)
TaskStep(v) ==
    /\ task[v] \in Range(Stages)
    /\ task' = [task EXCEPT ![v] =
                   IF task[v] = "Probing" /\ videos[v].missing THEN "Skipped"
                   ELSE NextStage(task[v])]
    /\ \E now \in Timestamps :
          disk' = disk \cup { [name |-> f, by |-> v] :
                                 f \in FilesWritten(videos[v], task[v], now) }
    /\ UNCHANGED <<fpc, max_workers, videos, collected, next_v, results, logged>>
    /\ UNCHANGED <<dvars, tvars, pvars, ovars, mvars>>

\* a running call raises in its stage
TaskRaises(v) ==
    /\ task[v] \in Range(Stages)
    /\ task[v] = "Probing" => ~videos[v].missing
    /\ task' = [task EXCEPT ![v] = "Error"]
    /\ UNCHANGED <<fpc, max_workers, videos, collected, next_v, results, logged, disk>>
    /\ UNCHANGED <<dvars, tvars, pvars, ovars, mvars>>

\* what the try/except around one video's result does to the batch
Handled(v) ==
    IF task[v] = "Error"
    THEN IF ExceptionCaught
         THEN [fpc |-> fpc, results |-> results, logged |-> Append(logged, v)]
         ELSE [fpc |-> "raised", results |-> results, logged |-> logged]
    ELSE [fpc |-> fpc, results |-> Append(results, v), logged |-> logged]

\* as_completed yields a finished future; fut.result() inside try/except
Collect(v) ==
    /\ fpc = "as_completed"
    /\ task[v] \in Terminal
    /\ v \notin collected
    /\ collected' = collected \cup {v}
    /\ fpc' = Handled(v).fpc
    /\ results' = Handled(v).results
    /\ logged' = Handled(v).logged
    /\ UNCHANGED <<max_workers, videos, task, next_v, disk>>
    /\ UNCHANGED <<dvars, tvars, pvars, ovars, mvars>>

\* the sequential call has ended: append its result or log its exception
LoopCollect ==
    /\ fpc = "loop"
    /\ next_v <= Len(videos)
    /\ task[next_v] \in Terminal
    /\ next_v' = next_v + 1
    /\ fpc' = Handled(next_v).fpc
    /\ results' = Handled(next_v).results
    /\ logged' = Handled(next_v).logged
    /\ UNCHANGED <<max_workers, videos, task, collected, disk>>
    /\ UNCHANGED <<dvars, tvars, pvars, ovars, mvars>>

\* every future has been yielded; the executor shuts down; return
PoolReturn ==
    /\ fpc = "as_completed"
    /\ collected = VideoIdx
    /\ fpc' = "returned"
    /\ UNCHANGED <<max_workers, videos, task, collected, next_v, results, logged, disk>>
    /\ UNCHANGED <<dvars, tvars, pvars, ovars, mvars>>

\* the loop is exhausted; return
LoopReturn ==
    /\ fpc = "loop"
    /\ next_v > Len(videos)
    /\ fpc' = "returned"
    /\ UNCHANGED <<max_workers, videos, task, collected, next_v, results, logged, disk>>
    /\ UNCHANGED <<dvars, tvars, pvars, ovars, mvars>>

-----------------------------------------------------------------------------
(* The overlay stage of process_single_video (pipeline.py lines 71-100):   *)
(* the title card, transcription and the captions burnt into the clip.     *)

\* caption entries transcription returns at most
MaxEntries == 2

\* caption texts: empty, blanks only, words
Texts == {"", "  ", "hi"}

\* text.strip()
Strip(t) == IF t \in {"", "  "} THEN "" ELSE t

EntryLists == UNION { [1..n -> Texts] : n \in 0..MaxEntries }

\* add_title_card and burn_captions draw a text the same way: pygame inside
\* "try ... except Exception: pass", then OpenCV outside any try
Rasterize(pygame_ok, opencv_ok) ==
    IF pygame_ok THEN "pygame" ELSE IF opencv_ok THEN "opencv" ELSE "raised"

\* transcribe_to_srt: the whisper CLI, else the Python API, else []
transcribe_to_srt(cli_ok, python_ok, es) ==
    IF cli_ok THEN [by |-> "cli", entries |-> es]
    ELSE IF python_ok THEN [by |-> "python", entries |-> es]
    ELSE [by |-> "failed", entries |-> <<>>]

OStart ==
    /\ opc = "title"
    /\ title \in BOOLEAN
    /\ title_card = "none"
    /\ transcriber = "none"
    /\ entries = <<>>
    /\ cap_i = 1
    /\ burned = <<>>

OIdle ==
    /\ opc = "idle"
    /\ title = FALSE
    /\ title_card = "none"
    /\ transcriber = "none"
    /\ entries = <<>>
    /\ cap_i = 1
    /\ burned = <<>>

\* lines 72-80: the optional title card (then the enhancements, which draw no text)
AddTitleCard ==
    /\ opc = "title"
    /\ \E pygame_ok \in BOOLEAN, opencv_ok \in BOOLEAN :
          LET r == IF title THEN Rasterize(pygame_ok, opencv_ok) ELSE "none" IN
          /\ title_card' = IF r = "raised" THEN title_card ELSE r
          /\ opc' = IF r = "raised" THEN "raised" ELSE "transcribe"
    /\ UNCHANGED <<title, transcriber, entries, cap_i, burned>>
    /\ UNCHANGED <<dvars, tvars, pvars, fvars, mvars>>

\* lines 83-84: entries = transcribe_to_srt(...); "if entries:" burn_captions
Transcribe ==
    /\ opc = "transcribe"
    /\ \E cli_ok \in BOOLEAN, python_ok \in BOOLEAN, es \in EntryLists :
          LET r == transcribe_to_srt(cli_ok, python_ok, es) IN
          /\ transcriber' = r.by
          /\ entries' = r.entries
          /\ opc' = IF r.entries = <<>> THEN "done" ELSE "captions"
    /\ cap_i' = 1
    /\ UNCHANGED <<title, title_card, burned>>
    /\ UNCHANGED <<dvars, tvars, pvars, fvars, mvars>>

\* burn_captions, one iteration of "for start, end, text in entries"
BurnCaption ==
    /\ opc = "captions"
    /\ cap_i <= Len(entries)
    /\ \E pygame_ok \in BOOLEAN, opencv_ok \in BOOLEAN :
          LET r == IF Strip(entries[cap_i]) = "" THEN "continue"
                   ELSE Rasterize(pygame_ok, opencv_ok) IN
          /\ burned' = IF r \in {"pygame", "opencv"} THEN Append(burned, cap_i) ELSE burned
          /\ cap_i' = IF r = "raised" THEN cap_i ELSE cap_i + 1
          /\ opc' = IF r = "raised" THEN "raised" ELSE opc
    /\ UNCHANGED <<title, title_card, transcriber, entries>>
    /\ UNCHANGED <<dvars, tvars, pvars, fvars, mvars>>

\* burn_captions line 148: the composite is returned to the pipeline
CompositeCaptions ==
    /\ opc = "captions"
    /\ cap_i > Len(entries)
    /\ opc' = "done"
    /\ UNCHANGED <<title, title_card, transcriber, entries, cap_i, burned>>
    /\ UNCHANGED <<dvars, tvars, pvars, fvars, mvars>>

ONext == AddTitleCard \/ Transcribe \/ BurnCaption \/ CompositeCaptions

-----------------------------------------------------------------------------
(* probe_media (media_probe.py) *)

\* streams an ffprobe report lists at most
MaxStreams == 2

\* a value of the metadata record: None, or a number
None == [some |-> FALSE, v |-> 0]

Some(x) == [some |-> TRUE, v |-> x]

\* the numerals ffprobe reports; any other non-empty text ("N/A") makes
\* int() and float() raise ValueError
NumberOf(raw) ==
    CASE raw = "10.0" -> 10
      [] raw = "128000" -> 128000
      [] raw = "1920" -> 1920
      [] raw = "1080" -> 1080
      [] raw = "2" -> 2
      [] raw = "48000" -> 48000
      [] raw = "25" -> 25
      [] OTHER -> 0

Numerals == {"10.0", "128000", "1920", "1080", "2", "48000", "25"}

\* "int(x) if x else None" and "float(x) if x else None" ("" is a key that
\* is absent or empty)
ReadNumber(raw) ==
    IF raw = "" THEN [raised |-> FALSE, value |-> None]
    ELSE IF raw \in Numerals THEN [raised |-> FALSE, value |-> Some(NumberOf(raw))]
    ELSE [raised |-> TRUE, value |-> None]

\* lines 33-38: the frame rate, "num/den" or a plain number; nothing is
\* assigned when the rate is absent
ReadRate(raw) ==
    CASE raw = "" -> [raised |-> FALSE, assigns |-> FALSE, value |-> None]
      [] raw = "30/1" -> [raised |-> FALSE, assigns |-> TRUE, value |-> Some(30)]
      [] raw = "0/0" -> [raised |-> FALSE, assigns |-> TRUE, value |-> None]
      [] raw \in Numerals ->
             [raised |-> FALSE, assigns |-> TRUE, value |-> Some(NumberOf(raw))]
      [] OTHER -> [raised |-> TRUE, assigns |-> FALSE, value |-> None]

\* the streams of a report; rate is "r_frame_rate or avg_frame_rate"
VideoStreams ==
    [codec_type : {"video"}, width : {"", "1920"}, height : {"1080"},
     rate : {"", "30/1", "0/0", "N/A", "25"}, channels : {""}, sample_rate : {""}]

AudioStreams ==
    [codec_type : {"audio"}, width : {""}, height : {""}, rate : {""},
     channels : {"", "2"}, sample_rate : {"48000", "N/A"}]

StreamLists ==
    UNION { [1..n -> VideoStreams \cup AudioStreams] : n \in 0..MaxStreams }

Formats == [duration : {"", "10.0", "N/A"}, bit_rate : {"", "128000", "N/A"}]

\* what ffmpeg.probe does: it raises, or returns a report
ProbeRaises == [raises |-> TRUE, format |-> [duration |-> "", bit_rate |-> ""],
                streams |-> <<>>]

Probes == {ProbeRaises} \cup [raises : {FALSE}, format : Formats, streams : StreamLists]

\* what cv2.VideoCapture gives: not opened, or fps, width and height
ClosedCap == [opened |-> FALSE, fps |-> 0, width |-> 0, height |-> 0]

Caps == {ClosedCap} \cup [opened : {TRUE}, fps : {0, 30}, width : {0, 640}, height : {480}]

\* what is at the path: nothing, a file that cannot be read as media, media
Sources ==
    [kind : {"missing", "unreadable"}, probe : {ProbeRaises}, cap : {ClosedCap}]
    \cup [kind : {"media"}, probe : Probes, cap : Caps]

\* lines 12-21
EmptyInfo(path) ==
    [path |-> path, duration |-> None, width |-> None, height |-> None,
     fps |-> None, audio_channels |-> None, sample_rate |-> None, bit_rate |-> None]

\* lines 29-38: the first video stream
ReadVideoStream(inf, s) ==
    LET w == ReadNumber(s.width)
        h == ReadNumber(s.height)
        r == ReadRate(s.rate)
        i1 == [inf EXCEPT !.width = w.value]
        i2 == [i1 EXCEPT !.height = h.value]
        i3 == IF r.assigns THEN [i2 EXCEPT !.fps = r.value] ELSE i2
    IN IF w.raised THEN [raised |-> TRUE, info |-> inf]
       ELSE IF h.raised THEN [raised |-> TRUE, info |-> i1]
       ELSE IF r.raised THEN [raised |-> TRUE, info |-> i2]
       ELSE [raised |-> FALSE, info |-> i3]

\* lines 39-41: the first audio stream
ReadAudioStream(inf, s) ==
    LET c == ReadNumber(s.channels)
        sr == ReadNumber(s.sample_rate)
        i1 == [inf EXCEPT !.audio_channels = c.value]
        i2 == [i1 EXCEPT !.sample_rate = sr.value]
    IN IF c.raised THEN [raised |-> TRUE, info |-> inf]
       ELSE IF sr.raised THEN [raised |-> TRUE, info |-> i1]
       ELSE [raised |-> FALSE, info |-> i2]

\* lines 28-41: "for s in streams", from stream i on
RECURSIVE ReadStreams(_, _, _)
ReadStreams(inf, streams, i) ==
    IF i > Len(streams) THEN [raised |-> FALSE, info |-> inf]
    ELSE LET s == streams[i]
             r == IF s.codec_type = "video" /\ inf.width = None
                  THEN ReadVideoStream(inf, s)
                  ELSE IF s.codec_type = "audio" /\ inf.audio_channels = None
                  THEN ReadAudioStream(inf, s)
                  ELSE [raised |-> FALSE, info |-> inf]
         IN IF r.raised THEN r ELSE ReadStreams(r.info, streams, i + 1)

\* lines 23-41, the body of the try: what it raised and what it had stored
TryFfprobe(inf, probe) ==
    LET d == ReadNumber(probe.format.duration)
        b == ReadNumber(probe.format.bit_rate)
        i1 == [inf EXCEPT !.duration = d.value]
        i2 == [i1 EXCEPT !.bit_rate = b.value]
    IN IF probe.raises THEN [raised |-> TRUE, info |-> inf]
       ELSE IF d.raised THEN [raised |-> TRUE, info |-> inf]
       ELSE IF b.raised THEN [raised |-> TRUE, info |-> i1]
       ELSE ReadStreams(i2, probe.streams, 1)

\* "int(x) or None", "float(fps) if fps > 0 else None"
PositiveOrNone(x) == IF x > 0 THEN Some(x) ELSE None

\* lines 46-55: the cv2 fallback for a missing fps
Cv2Fallback(inf, cap) ==
    IF inf.fps = None /\ cap.opened
    THEN [inf EXCEPT !.fps = PositiveOrNone(cap.fps),
                     !.width = IF inf.width = None THEN PositiveOrNone(cap.width)
                               ELSE inf.width,
                     !.height = IF inf.height = None THEN PositiveOrNone(cap.height)
                                ELSE inf.height]
    ELSE inf

\* a handler that lets the exception of the try block leave probe_media
ExceptPass_Reraise == FALSE

\* lines 42-43: "except Exception: pass"
ExceptPass == TRUE

\* probe_media(path)
probe_media(src) ==
    LET r == TryFfprobe(EmptyInfo(src.kind), src.probe) IN
    IF r.raised /\ ~ExceptPass THEN [raised |-> TRUE, info |-> r.info]
    ELSE [raised |-> FALSE, info |-> Cv2Fallback(r.info, src.cap)]

MStart ==
    /\ mpc = "call"
    /\ source \in Sources
    /\ info = <<>>

MIdle ==
    /\ mpc = "idle"
    /\ source = "none"
    /\ info = <<>>

ProbeMedia ==
    /\ mpc = "call"
    /\ LET r == probe_media(source) IN
          /\ mpc' = IF r.raised THEN "raised" ELSE "done"
          /\ info' = r.info
    /\ UNCHANGED source
    /\ UNCHANGED <<dvars, tvars, pvars, fvars, ovars>>

MNext == ProbeMedia

DNext == OpenFail \/ Open \/ ReadFrame \/ EndOfStream

InitDetect == DStart /\ TIdle /\ PIdle /\ FIdle /\ OIdle /\ MIdle

SpecDetect == InitDetect /\ [][DNext]_vars

TNext == ApplyTransitions

InitTransitions == DIdle /\ TStart /\ PIdle /\ FIdle /\ OIdle /\ MIdle

SpecTransitions == InitTransitions /\ [][TNext]_vars

PNext ==
    \/ SkipMissing
    \/ Probe
    \/ DetectHighlights
    \/ AssembleSequence
    \/ EnhanceAndOverlay
    \/ AudioMix
    \/ Export
    \/ StageRaises

InitVideo == DIdle /\ TIdle /\ PStart /\ FIdle /\ OIdle /\ MIdle

SpecVideo == InitVideo /\ [][PNext]_vars

FNext ==
    \/ SubmitAll
    \/ EnterLoop
    \/ CallVideo
    \/ LoopCollect
    \/ PoolReturn
    \/ LoopReturn
    \/ \E v \in VideoIdx : WorkerTakes(v)
    \/ \E v \in VideoIdx : TaskStep(v)
    \/ \E v \in VideoIdx : TaskRaises(v)
    \/ \E v \in VideoIdx : Collect(v)

InitFolder == DIdle /\ TIdle /\ PIdle /\ FStart /\ OIdle /\ MIdle

SpecFolder == InitFolder /\ [][FNext]_vars

InitOverlay == DIdle /\ TIdle /\ PIdle /\ FIdle /\ OStart /\ MIdle

SpecOverlay == InitOverlay /\ [][ONext]_vars

InitProbe == DIdle /\ TIdle /\ PIdle /\ FIdle /\ OIdle /\ MStart

SpecProbe == InitProbe /\ [][MNext]_vars

-----------------------------------------------------------------------------
(* Claims about detect_scenes_and_highlights, checked under SpecDetect *)

Returned == dpc = "done" /\ opened

SceneIdx == 1..(Len(scenes) - 1)

\* C1: once the frame loop has ended, the boundary list starts with 0 and
\* ends with the number of frames read, is non-decreasing, and every frame
\* read lies in exactly one scene [scenes[i], scenes[i+1]): the scenes are
\* contiguous, pairwise non-overlapping and cover the timeline without gaps.
C1_BoundariesPartition ==
    Returned =>
        /\ Len(scenes) >= 2
        /\ scenes[1] = 0
        /\ scenes[Len(scenes)] = frame_idx
        /\ \A i \in SceneIdx : scenes[i] <= scenes[i + 1]
        /\ \A f \in 0..(frame_idx - 1) :
              Cardinality({i \in SceneIdx : scenes[i] <= f /\ f < scenes[i + 1]}) = 1

C1_Witness ==
    Returned /\ frame_idx >= 3 /\ Len(scenes) >= 4

\* C2: the returned highlight list is sorted by score descending, and two
\* highlights of equal score appear in scene (timeline) order.
C2_SortedStable ==
    dpc = "done" =>
        \A i, j \in 1..Len(highlights) :
            i < j => /\ RatGE(highlights[i].score, highlights[j].score)
                     /\ RatEQ(highlights[i].score, highlights[j].score)
                           => highlights[i].start < highlights[j].start

C2_Witness ==
    /\ Returned
    /\ \E i, j \in 1..Len(highlights) :
          i < j /\ RatEQ(highlights[i].score, highlights[j].score)
    /\ \E i, j \in 1..Len(highlights) :
          i < j /\ highlights[i].start > highlights[j].start

SceneStart(i) == FrameSec(scenes[i], fps)
SceneEnd(i) == FrameSec(scenes[i + 1], fps)
SceneMean(i) == SceneScore(motion_scores, scenes[i], scenes[i + 1])

SceneQualifies(i) ==
    /\ SceneEnd(i) - SceneStart(i) >= min_scene_len_sec
    /\ 10 * SceneMean(i).num >= motion_threshold * SceneMean(i).den

SceneInOutput(i) ==
    \E k \in 1..Len(highlights) :
        highlights[k] = [start |-> SceneStart(i), end |-> SceneEnd(i), score |-> SceneMean(i)]

\* C4: a scene is in the returned highlight list if and only if its duration
\* is at least min_scene_len_sec and its score is at least
\* motion_threshold * 0.1; the list holds nothing else.
C4_FilterIff ==
    Returned =>
        /\ \A i \in SceneIdx : SceneInOutput(i) <=> SceneQualifies(i)
        /\ Len(highlights) = Cardinality({i \in SceneIdx : SceneQualifies(i)})

C4_Witness ==
    /\ Returned
    /\ \E i \in SceneIdx :
          /\ SceneEnd(i) - SceneStart(i) < min_scene_len_sec
          /\ SceneMean(i).num > 0
          /\ 10 * SceneMean(i).num >= motion_threshold * SceneMean(i).den
          /\ ~SceneInOutput(i)
    /\ motion_threshold > 0
    /\ \E i \in SceneIdx : SceneInOutput(i)

\* C17: every scene the segmenter forms for a source that opens has
\* startFrame < endFrame, whatever the number of frames read.
C17_ScenesNonEmpty ==
    Returned => \A i \in SceneIdx : scenes[i] < scenes[i + 1]

\* the motion magnitude of frame f >= 1: the optical flow between frame
\* f - 1 and frame f (frame 0 has none)
FrameMagnitude(f) == motion_scores[f]

\* the sum of the magnitudes of the frames lo..hi that have one
RECURSIVE SumMagnitudes(_, _)
SumMagnitudes(lo, hi) ==
    IF hi < lo \/ hi < 1 THEN 0
    ELSE (IF hi <= Len(motion_scores) THEN FrameMagnitude(hi) ELSE 0)
         + SumMagnitudes(lo, hi - 1)

\* how many of the frames lo..hi have a magnitude
CountMagnitudes(lo, hi) ==
    Cardinality({f \in lo..hi : f >= 1 /\ f <= Len(motion_scores)})

\* score is the mean of the magnitudes of the frames lo..hi, 0 if there are none
IsMeanOfFrames(score, lo, hi) ==
    IF CountMagnitudes(lo, hi) = 0 THEN score.num = 0
    ELSE score.num * CountMagnitudes(lo, hi) = SumMagnitudes(lo, hi) * score.den

\* C18 as stated: the score of every returned scene [s, e) is the mean of
\* the magnitudes of the frames s .. e-2 (frame index in [s, e-1)), where
\* the magnitude of frame i is the flow between frames i-1 and i; 0 when
\* there is none.
C18_ScoreIsMeanOverFramesFromStart ==
    Returned =>
        \A i \in SceneIdx :
            SceneInOutput(i) =>
                \E k \in 1..Len(highlights) :
                    /\ highlights[k].start = SceneStart(i)
                    /\ highlights[k].end = SceneEnd(i)
                    /\ IsMeanOfFrames(highlights[k].score, scenes[i], scenes[i + 1] - 2)

\* C18 as amended: the score of every returned scene [s, e) is the mean of
\* the flows between consecutive frames of the scene, that is of the
\* magnitudes of the frames s+1 .. e-1 (entries s .. e-2 of the motion
\* series, whose entry j is the flow between frames j and j+1); 0 when the
\* scene has a single frame or none.
C18_ScoreIsMeanOfFlowsInsideScene ==
    Returned =>
        \A i \in SceneIdx :
            SceneInOutput(i) =>
                \E k \in 1..Len(highlights) :
                    /\ highlights[k].start = SceneStart(i)
                    /\ highlights[k].end = SceneEnd(i)
                    /\ IsMeanOfFrames(highlights[k].score, scenes[i] + 1, scenes[i + 1] - 1)
                    /\ scenes[i + 1] - 1 <= scenes[i] => highlights[k].score.num = 0

C18_Witness ==
    /\ Returned
    /\ \E i \in SceneIdx :
          /\ scenes[i] >= 1
          /\ scenes[i + 1] - scenes[i] >= 2
          /\ i + 1 < Len(scenes)
          /\ SceneInOutput(i)
          /\ FrameMagnitude(scenes[i]) # FrameMagnitude(scenes[i + 1] - 1)
          /\ FrameMagnitude(scenes[i + 1]) # FrameMagnitude(scenes[i + 1] - 1)

-----------------------------------------------------------------------------
(* Claims about process_single_video, checked under SpecVideo *)

\* the detection stage has completed (line 66 passed)
PastDetection == pc = "SequenceAssembly" \/ Len(ran) >= 3

\* C3: whatever the selection and top_k, _build_sequence returns at least
\* one segment, so apply_transitions never raises "No segments to stitch"
\* in a pipeline run.
C3_SegmentsNonEmpty ==
    /\ tpc # "raised"
    /\ tpc = "returned" => Len(segments) >= 1

C3_Witness ==
    /\ tpc = "returned"
    /\ selection # <<>>
    /\ top_k = 0
    /\ segments = <<[start |-> 0, end |-> clip_duration]>>

\* C5: the trims become the selection (each scored 1.0, in the order
\* supplied) exactly when detection returned nothing and the item carries
\* trims; otherwise the selection is what detection returned.
C5_TrimSubstitution ==
    PastDetection =>
        /\ (detected = <<>> /\ trims # <<>>) =>
              /\ Len(selection) = Len(trims)
              /\ \A i \in 1..Len(trims) :
                    selection[i] = [start |-> trims[i].start, end |-> trims[i].end,
                                    score |-> [num |-> 1, den |-> 1]]
        /\ detected # <<>> => selection = detected
        /\ (detected = <<>> /\ trims = <<>>) => selection = <<>>
        /\ result_log.highlights = selection

C5_Witness ==
    /\ PastDetection
    /\ detected = <<>>
    /\ Len(trims) = 2
    /\ trims[1].start > trims[2].start
    /\ selection[1].start = trims[1].start

\* C6: every sub-range _build_sequence emits for a selected pair lies in the
\* source: 0 <= start <= end <= clip.duration.
C6_SubRangeWithinSource ==
    (tpc = "returned" /\ Prefix(selection, top_k) # <<>>) =>
        \A i \in 1..Len(segments) :
            /\ 0 <= segments[i].start
            /\ segments[i].start <= segments[i].end
            /\ segments[i].end <= clip_duration

\* C9: a video whose source file is missing is skipped: the call returns a
\* log with error "missing_file" and no outputs or highlights, no stage has
\* run, nothing is written and nothing is raised.
C9_MissingSkipped ==
    ~exists =>
        /\ outcome # "raised"
        /\ pc \in {"Probing", "Skipped"}
        /\ pc = "Skipped" =>
              /\ outcome = "returned"
              /\ result_log = [EmptyLog EXCEPT !.error = "missing_file"]
              /\ ran = <<>>
              /\ tpc = "idle"
              /\ written = {}

C9_Witness ==
    ~exists /\ pc = "Skipped" /\ outcome = "returned" /\ trims # <<>>

\* how many selected pairs highlights[:top_k] keeps
KeptCount ==
    IF top_k >= 0 THEN (IF top_k < Len(selection) THEN top_k ELSE Len(selection))
    ELSE (IF Len(selection) + top_k > 0 THEN Len(selection) + top_k ELSE 0)

\* C16 as stated: for every top_k, the whole-source fallback is taken if and
\* only if no highlight survived filtering and no trims were supplied.
C16_FallbackIffNoSelection ==
    tpc = "returned" =>
        (fell_back <=> (detected = <<>> /\ trims = <<>>))

\* C16 as amended: the fallback is taken if and only if the selection cut to
\* its first top_k entries is empty: the selection is empty, or top_k is 0, or
\* top_k is negative and drops every entry.  With top_k >= 1 that is exactly
\* when no highlight survived and no trims were supplied.  The fallback
\* yields the whole source as the only segment; otherwise the segments are
\* the padded sub-ranges of the kept entries, in order.
C16_FallbackIffTruncationEmpty ==
    tpc = "returned" =>
        /\ fell_back <=> (selection = <<>> \/ top_k = 0
                             \/ (top_k < 0 /\ Len(selection) + top_k <= 0))
        /\ top_k >= 1 => (fell_back <=> (detected = <<>> /\ trims = <<>>))
        /\ fell_back => segments = <<[start |-> 0, end |-> clip_duration]>>
        /\ ~fell_back =>
              /\ Len(segments) = KeptCount
              /\ \A i \in 1..Len(segments) :
                    /\ segments[i].start =
                          (IF selection[i].start > Pad THEN selection[i].start - Pad ELSE 0)
                    /\ segments[i].end =
                          (IF selection[i].end + Pad < clip_duration
                           THEN selection[i].end + Pad ELSE clip_duration)

C16_Witness ==
    /\ tpc = "returned"
    /\ fell_back
    /\ detected # <<>>
    /\ top_k < 0
    /\ segments = <<[start |-> 0, end |-> clip_duration]>>

\* the fixed order of the states of a video
ForwardOrder == <<"Probing", "HighlightDetection", "SequenceAssembly",
                  "EnhancementAndOverlay", "AudioMix", "Export", "Done">>

PositionOf(s) == CHOOSE i \in 1..Len(ForwardOrder) : ForwardOrder[i] = s

\* one step of a video: it stays, moves to the next state of the order, is
\* skipped from Probing for a missing source, or ends in Error from a stage
\* that raised; the stages run so far are a prefix of the order
ForwardStep ==
    /\ pc \in {"Done", "Skipped", "Error"} => (pc' = pc /\ ran' = ran)
    /\ (pc = "Probing" /\ ~exists /\ pc' # pc) => (pc' = "Skipped" /\ ran' = ran)
    /\ pc' = "Skipped" => ((pc = "Probing" /\ ~exists) \/ pc = "Skipped")
    /\ (pc' = "Error" /\ pc # "Error") =>
          (pc \in Range(ForwardOrder) \ {"Done"} /\ outcome' = "raised")
    /\ (pc' \in Range(ForwardOrder) /\ pc' # pc) =>
          /\ pc \in Range(ForwardOrder) \ {"Done"}
          /\ PositionOf(pc') = PositionOf(pc) + 1
          /\ ran' = Append(ran, pc)
    /\ Len(ran') <= Len(ForwardOrder) - 1
    /\ \A i \in 1..Len(ran') : ran'[i] = ForwardOrder[i]

\* C19: a video's states occur in the fixed order Probing, HighlightDetection,
\* SequenceAssembly, EnhancementAndOverlay, AudioMix, Export, Done; no stage
\* runs twice or after a later one; Skipped is entered only from Probing on a
\* missing source and Error only from a stage that raises, and nothing runs
\* after Done, Skipped or Error.
C19_StrictlyForward == [][ForwardStep]_vars

C19_Witness ==
    /\ pc = "Done"
    /\ outcome = "returned"
    /\ ran = <<"Probing", "HighlightDetection", "SequenceAssembly",
               "EnhancementAndOverlay", "AudioMix", "Export">>

\* C14: with dry_run set, process_single_video writes no file: no temp
\* audio, no exported video and no per-video log.
C14_DryRunWritesNothing ==
    dry_run => written = {}

-----------------------------------------------------------------------------
(* Claims about apply_transitions, checked under SpecTransitions *)

TotalDuration == SumDurations(segments, Len(segments))

\* C7: with kind crossfade or fade, n >= 2 segments overlap pairwise by the
\* transition duration, so the joined clip lasts the sum of the segment
\* durations minus (n - 1) * duration; a single segment is returned as is.
C7_CrossfadeDuration ==
    tpc = "returned" =>
        /\ (Len(segments) >= 2 /\ Lower(kind) \in {"crossfade", "fade"}) =>
              stitched.duration = TotalDuration - (Len(segments) - 1) * duration
        /\ Len(segments) = 1 => stitched.duration = SegDuration(segments[1])

\* C8 as stated: every kind other than crossfade/fade, None and the empty
\* string included, joins n >= 2 segments back-to-back, so the joined clip
\* lasts the sum of the segment durations.
C8_AnyOtherKindConcatenates ==
    (tpc = "returned" /\ Len(segments) >= 2
        /\ Lower(kind) \notin {"crossfade", "fade"}) =>
        stitched.duration = TotalDuration

\* C8 as amended: a non-empty kind other than crossfade/fade (in any letter
\* case) joins n >= 2 segments back-to-back, each starting where its
\* predecessor ends, and the joined clip lasts the sum of their durations;
\* None and the empty string are joined as a crossfade, each segment placed
\* (i - 1) * duration earlier than back-to-back (not before 0).
C8_NamedOtherKindConcatenates ==
    (tpc = "returned" /\ Len(segments) >= 2) =>
        /\ (kind \notin {NoneKind, ""} /\ Lower(kind) \notin {"crossfade", "fade"}) =>
              /\ stitched.duration = TotalDuration
              /\ \A i \in 1..Len(segments) :
                    stitched.start_times[i] = SumDurations(segments, i - 1)
        /\ kind \in {NoneKind, ""} =>
              \A i \in 1..Len(segments) :
                  stitched.start_times[i] =
                      Max(0, SumDurations(segments, i - 1) - (i - 1) * duration)

C8_Witness ==
    /\ tpc = "returned"
    /\ Len(segments) >= 3
    /\ kind = "cut"
    /\ stitched.duration = TotalDuration
    /\ stitched.start_times[2] = SegDuration(segments[1])

-----------------------------------------------------------------------------
(* Claims about process_folder, checked under SpecFolder *)

\* C10: in pool mode and in sequential mode, a video whose processing raises
\* is caught and logged at the batch boundary; no exception leaves
\* process_folder, the batch can always go on until it returns, and when it
\* returns every video has been started and has reached its own terminal
\* state, with one log entry per failed video and one result per other video.
C10_FailureIsolated ==
    /\ fpc # "raised"
    /\ fpc # "returned" => ENABLED FNext
    /\ fpc = "returned" =>
          /\ \A v \in VideoIdx : task[v] \in Terminal
          /\ \A v \in VideoIdx :
                /\ Cardinality({i \in 1..Len(logged) : logged[i] = v})
                      = (IF task[v] = "Error" THEN 1 ELSE 0)
                /\ Cardinality({i \in 1..Len(results) : results[i] = v})
                      = (IF task[v] = "Error" THEN 0 ELSE 1)

C10_Witness ==
    /\ fpc = "returned"
    /\ ~PoolMode(max_workers)
    /\ Len(videos) = 2
    /\ task[1] = "Error"
    /\ task[2] = "Done"
    /\ results = <<2>>
    /\ logged = <<1>>

-----------------------------------------------------------------------------
(* Claims about the overlay stage, checked under SpecOverlay *)

\* C11: a failing collaborator never ends the stage with an exception: a
\* transcription whose backends both fail yields no entries, a caption (or
\* title) that no rasterizer can draw is left out, and the stage completes.
C11_CollaboratorFailureTolerated ==
    /\ opc # "raised"
    /\ transcriber = "failed" => entries = <<>>
    /\ opc = "done" => \A i \in 1..Len(burned) : Strip(entries[burned[i]]) # ""

-----------------------------------------------------------------------------
(* Claims about the files of a batch, checked under SpecFolder *)

\* the per-video JSON logs video v has left in the output directory
RecordsOf(v) == { w \in disk : w.by = v /\ w.name = LogPath(videos[v].file) }

\* C12: when process_folder has returned, every video that was processed to
\* the end or skipped for a missing source has exactly one persisted
\* per-video record (for a skipped video, the one carrying the error marker).
C12_OneRecordPerVideo ==
    fpc = "returned" =>
        \A v \in VideoIdx :
            task[v] \in {"Done", "Skipped"} => Cardinality(RecordsOf(v)) = 1

\* C13: in a pool-mode batch of pairwise distinct video items, no file name
\* in the output directory is written by two different videos.
C13_DistinctOutputPaths ==
    (PoolMode(max_workers) /\ \A u, v \in VideoIdx : u # v => videos[u] # videos[v]) =>
        \A w1, w2 \in disk : w1.by # w2.by => w1.name # w2.name

-----------------------------------------------------------------------------
(* Claims about probe_media, checked under SpecProbe *)

InfoKeys == {"path", "duration", "width", "height", "fps", "audio_channels",
             "sample_rate", "bit_rate"}

\* C15: probe_media never raises; for a missing or unreadable path it
\* returns a record with every key, all of them None except the path; for
\* any source the record has every key and each value is None or a number.
C15_ProbeNeverRaises ==
    /\ mpc # "raised"
    /\ mpc = "done" =>
          /\ DOMAIN info = InfoKeys
          /\ \A k \in InfoKeys \ {"path"} : info[k] = None \/ info[k].some
          /\ source.kind \in {"missing", "unreadable"} =>
                \A k \in InfoKeys \ {"path"} : info[k] = None
          /\ source.probe.raises /\ ~source.cap.opened =>
                \A k \in InfoKeys \ {"path"} : info[k] = None

C15_Witness ==
    /\ mpc = "done"
    /\ source.kind = "missing"
    /\ info = EmptyInfo("missing")

=============================================================================
